---- MODULE Spec2Model ----
(***************************************************************************)
(* A model of the s3a annotator's stateful core:                           *)
(*   - the generator based undo stack (src/cdef/undo.py),                  *)
(*   - the processor wrapper's run (src/s3a/procwrapper.py),               *)
(*   - the Vertices plugin's draw-event pipeline runs against the shared   *)
(*     procCache (src/s3a/plugins/tablefield.py, imageproc.py).            *)
(*   - the registry of pipeline stages                                     *)
(*     (src/s3a/parameditors/algcollection.py).                            *)
(*   - the undoable edits of the focused region (tablefield.py),           *)
(*   - a run on too few vertices (imageproc.py, procwrapper.py),           *)
(*   - the crop to the local area (imageproc.py, generalutils.py),         *)
(*   - the application window's unsaved-changes flag (src/cdef/cdefapp.py),*)
(*   - MaxSizeDict (src/s3a/generalutils.py).                              *)
(* Each part has its own specification over its own variables; the other   *)
(* variables are held constant by that specification.                      *)
(***************************************************************************)
EXTENDS Integers, Sequences, FiniteSets, TLC

\* ------------------------------------------------------------------ bounds
\* Longest deque of recorded actions the model lets an undoable call extend.
MaxActs == 3
\* The same bound where groups are used, and the largest number of undoable
\* calls made inside one group block.
MaxGrpActs == 2
MaxGroup == 2

\* The application state the undoable generators act on: a few cells, each
\* holding a small value (a focused component, a region mask, ...).
Cells == {0, 1}
Vals == {0, 1}
\* maxlen arguments FRActionStack is constructed with; 0 stands for None.
MaxLens == {0, 1}

VARIABLES
  app,       \* application state, Cells -> Vals
  actions,   \* FRActionStack.actions: the deque new actions are received in
  saved,     \* oldActions of the open group's overrideBuffer
  key,       \* FRActionStack.key
  grp,       \* the open `with stack.group(..)` block, if any
  maxlen,    \* constructor argument
  res,       \* how the last call on the stack ended
  hist,      \* the last calls made, with the states they started from
  lin        \* the run of undo() and redo() calls made last, where kept

undoVars == <<app, actions, saved, key, grp, maxlen, res, hist, lin>>

VARIABLES
  compSer,      \* mainImg.compSer[INST_ID], the focused component's id
  region,       \* VerticesPlugin.region, the focused region shown in the view
  procCache,    \* imageproc.procCache["mask"], the shared history mask
  oldProcCache, \* VerticesPlugin.oldProcCache
  firstRun,     \* VerticesPlugin.firstRun
  queueActions, \* VerticesPlugin.queueActions
  image,        \* whether mainImg.image is set
  threads,      \* VerticesPlugin.taskMgr.threads
  arrivals,     \* how many draw events started a run so far
  obs,          \* what the last handler did, as seen from outside
  edits         \* the region edits updateRegionUndoable made, on the stack
                \* of undoable actions, kept where edits.on is set

plugVars == <<compSer, region, procCache, oldProcCache, firstRun, queueActions,
              image, threads, arrivals, obs, edits>>

VARIABLES
  undos,        \* FRActionStack.undos, the deque stack.append receives in
  savepoint     \* FRActionStack._savepoint, and whether setSavepoint set it

saveVars == <<undos, savepoint>>

VARIABLES
  primitiveProcs, \* AlgCollection.primitiveProcs
  topProcs,       \* AlgCollection.topProcs
  includeModules, \* AlgCollection.includeModules
  heap,           \* the stage objects made so far, by identity
  ioVals,         \* whether the value objects of a function's stages were
                  \* changed in place
  look            \* the last call on the collection and what it returned

algVars == <<primitiveProcs, topProcs, includeModules, heap, ioVals, look>>

VARIABLES
  geo,   \* a run of the processor wrapper on given vertices, and how it ended
  crop,  \* a call of crop_to_local_area, and the bounds it cut the image at
  win,   \* the application window: hasUnsavedChanges beside the component
         \* table and what was exported of it
  msd    \* a MaxSizeDict: its keys in the order dict keeps them, and when
         \* the value under each was set

restVars == <<geo, crop, win, msd>>

vars == <<undoVars, plugVars, saveVars, algVars, restVars>>

\* ------------------------------------------------------------------ deques
\* collections.deque(maxlen=m), m = 0 standing for maxlen=None.
Deque(q, m) == [q |-> q, m |-> m]

Last(q) == q[Len(q)]

Front(q) == SubSeq(q, 1, Len(q) - 1)

\* deque.appendleft: a full bounded deque discards from the right end.
AppendLeft(d, a) ==
  IF d.m > 0 /\ Len(d.q) >= d.m
    THEN [d EXCEPT !.q = <<a>> \o Front(d.q)]
    ELSE [d EXCEPT !.q = <<a>> \o d.q]

\* deque.append: a full bounded deque discards from the left end.
AppendRight(d, a) ==
  IF d.m > 0 /\ Len(d.q) >= d.m
    THEN [d EXCEPT !.q = Tail(d.q) \o <<a>>]
    ELSE [d EXCEPT !.q = d.q \o <<a>>]

\* deque.rotate(1): the right end moves to the left end.
RotateRight(d) ==
  IF Len(d.q) = 0 THEN d ELSE [d EXCEPT !.q = <<Last(d.q)>> \o Front(d.q)]

\* deque.rotate(-1): the left end moves to the right end.
RotateLeft(d) ==
  IF Len(d.q) = 0 THEN d ELSE [d EXCEPT !.q = Tail(d.q) \o <<Head(d.q)>>]

\* ----------------------------------------------------------------- _FRAction
\* An action record.  kind "set": the generator writes val to cell and, after
\* its yield, writes the captured old value back.  kind "nest": likewise, but
\* the undo block restores by calling the undoable function again, the way
\* FRFocusedImage.updateAll does.  kind "grp": the grpAct of a closed group,
\* buf being its newActBuffer.  tau is treatAsUndo; swp says the constructor
\* swapped forward and backward (treatAsUndo=True); run is the state of
\* _runner: "None", "live" (suspended at its yield), "dead" (ended by an
\* exception) or "del" (attribute deleted).  cur marks the action processAct
\* is working on while it sits in the deque that receives nested actions.
_FRAction(kind, c, v, buf, treatAsUndo) ==
  [kind |-> kind, cell |-> c, val |-> v, old |-> 0, tau |-> treatAsUndo,
   swp |-> treatAsUndo, run |-> "None", buf |-> buf, cur |-> FALSE]

\* Write the processed action's current fields into its slot of the deque.
Sync(W, a) ==
  [W EXCEPT !.q = [i \in DOMAIN W.q |->
                     IF W.q[i].cur THEN [a EXCEPT !.cur = TRUE] ELSE W.q[i]]]

Unmark(W) ==
  [W EXCEPT !.q = [i \in DOMAIN W.q |-> [W.q[i] EXCEPT !.cur = FALSE]]]

canUndo(D) == Len(D.q) > 0 /\ Last(D.q).tau

canRedo(D) == Len(D.q) > 0 /\ ~Head(D.q).tau

\* FRActionStack.flushUnusedRedos: pop from the left while the left end is not treatAsUndo.
flushUnusedRedos(D) ==
  LET keep == {i \in DOMAIN D.q : D.q[i].tau} IN
  IF keep = {} THEN [D EXCEPT !.q = <<>>]
  ELSE LET first == CHOOSE i \in keep : \A j \in keep : i <= j
       IN [D EXCEPT !.q = SubSeq(D.q, first, Len(D.q))]

\* What running a block leaves behind: the action, the receiving deque, the
\* application state, and whether an exception left the block.
Ran(a, W, st, exc) == [a |-> a, W |-> W, app |-> st, exc |-> exc]

\* _FRAction.forward, as the class defines it, of an action that wraps an
\* undoable generator function: start the generator, run it to its yield.
genForward(a, W, st, fail) ==
  IF fail
    THEN Ran([a EXCEPT !.tau = TRUE, !.run = "dead"], W, st, TRUE)
    ELSE Ran([a EXCEPT !.tau = TRUE, !.run = "live", !.old = st[a.cell]], W,
             [st EXCEPT ![a.cell] = a.val], FALSE)

\* processAct and flushUnusedRedos of a nested call, r being what the nested
\* action's do left behind.
innerNestedDone(W2, r) ==
  [W |-> flushUnusedRedos([W2 EXCEPT !.q = Front(W2.q) \o <<r.a>>]),
   app |-> r.app, exc |-> r.exc]

innerNestedRedo(W1, st) ==
  IF ~canRedo(W1)
    THEN [W |-> W1, app |-> st, exc |-> TRUE]
    ELSE innerNestedDone(RotateLeft(W1),
                         genForward(Head(W1.q), W1, st, FALSE))

\* The wrapper `inner` of an undoable function, called from inside a running
\* do or undo block (self.key is set there, so processAct swaps nothing).
innerNested(W, st, c, v) ==
  innerNestedRedo(AppendLeft(W, _FRAction("nest", c, v, <<>>, FALSE)), st)

\* The end of backward after the undo block called the undoable again.
genBackwardNested(a1, r) ==
  Ran([a1 EXCEPT !.run = IF r.exc THEN "dead" ELSE "del"], r.W, r.app, r.exc)

\* A backward that keeps the runner it resumed.
genBackwardRun_keeps(a, a1, W1, st, fail) ==
  CASE a.run \in {"None", "del"} -> Ran(a1, W1, st, TRUE)
    [] a.run = "dead" -> Ran(a1, W1, st, FALSE)
    [] a.run = "live" /\ fail -> Ran([a1 EXCEPT !.run = "dead"], W1, st, TRUE)
    [] a.run = "live" /\ ~fail /\ a.kind = "set" ->
         Ran(a1, W1, [st EXCEPT ![a.cell] = a.old], FALSE)
    [] a.run = "live" /\ ~fail /\ a.kind = "nest" ->
         Ran(a1, innerNested(W1, st, a.cell, a.old).W,
             innerNested(W1, st, a.cell, a.old).app,
             innerNested(W1, st, a.cell, a.old).exc)

genBackwardRun(a, a1, W1, st, fail) ==
  CASE a.run \in {"None", "del"} -> Ran(a1, W1, st, TRUE)
    [] a.run = "dead" -> Ran([a1 EXCEPT !.run = "del"], W1, st, FALSE)
    [] a.run = "live" /\ fail -> Ran([a1 EXCEPT !.run = "dead"], W1, st, TRUE)
    [] a.run = "live" /\ ~fail /\ a.kind = "set" ->
         Ran([a1 EXCEPT !.run = "del"], W1, [st EXCEPT ![a.cell] = a.old],
             FALSE)
    [] a.run = "live" /\ ~fail /\ a.kind = "nest" ->
         genBackwardNested(a1, innerNested(W1, st, a.cell, a.old))

\* _FRAction.backward, as the class defines it, of such an action: resume the
\* runner, swallow StopIteration, delete the runner.  The generator's frame,
\* and old with it, is gone once the runner has ended.
genBackward(a, W, st, fail, top) ==
  genBackwardRun(a, [a EXCEPT !.tau = FALSE, !.old = 0],
                 IF top THEN Sync(W, [a EXCEPT !.tau = FALSE, !.old = 0])
                        ELSE W,
                 st, fail)

\* _FRAction.do of such an action (never constructed with treatAsUndo).
genDo(a, W, st, fail, top) ==
  IF a.tau THEN genBackward(a, W, st, fail, top)
           ELSE genForward(a, W, st, fail)

grpActStep(p, r) ==
  [buf |-> p.buf \o <<r.a>>, W |-> r.W, app |-> r.app, exc |-> r.exc]

\* One pass of grpAct's `for act in newActBuffer: act.do()`; an exception
\* ends the loop where it is raised.
grpAct(buf, W, st, fail) ==
  LET run[i \in 0..Len(buf)] ==
        IF i = 0
          THEN [buf |-> <<>>, W |-> W, app |-> st, exc |-> FALSE]
          ELSE IF run[i - 1].exc
            THEN [run[i - 1] EXCEPT !.buf = @ \o <<buf[i]>>]
            ELSE grpActStep(run[i - 1],
                            genDo(buf[i], run[i - 1].W, run[i - 1].app,
                                  fail /\ i = 1, FALSE))
  IN run[Len(buf)]

\* The group's action after a pass of grpAct; run is the runner's state if
\* the pass reached its yield.
grpRan(a, treatAsUndo, run, r) ==
  Ran([a EXCEPT !.tau = treatAsUndo, !.buf = r.buf,
                !.run = IF r.exc THEN "dead" ELSE run],
      r.W, r.app, r.exc)

\* _FRAction.forward as the class defines it.
forward(a, W, st, fail, top) ==
  IF a.kind = "grp"
    THEN grpRan(a, TRUE, "live", grpAct(a.buf, W, st, fail))
    ELSE genForward(a, W, st, fail)

\* _FRAction.backward as the class defines it; for a group's action a live
\* runner goes through the second pass of grpAct to its second yield.
backward(a, W, st, fail, top) ==
  IF a.kind = "grp"
    THEN IF a.run = "live"
           THEN grpRan(a, FALSE, "del", grpAct(a.buf, W, st, fail))
           ELSE Ran([a EXCEPT !.tau = FALSE,
                              !.run = IF a.run = "dead" THEN "del" ELSE a.run],
                    W, st, a.run # "dead")
    ELSE genBackward(a, W, st, fail, top)

\* The instance attributes self.forward and self.backward, which __init__
\* swapped when treatAsUndo was given.
selfForward(a, W, st, fail, top) ==
  IF a.swp THEN backward(a, W, st, fail, top) ELSE forward(a, W, st, fail, top)

selfBackward(a, W, st, fail, top) ==
  IF a.swp THEN forward(a, W, st, fail, top) ELSE backward(a, W, st, fail, top)

\* _FRAction.do
do(a, W, st, fail, top) ==
  IF a.tau THEN selfBackward(a, W, st, fail, top)
           ELSE selfForward(a, W, st, fail, top)

\* ------------------------------------------------------------ FRActionStack
\* What a call on the stack leaves behind; out is "ok", "FRUndoStackError" or
\* "Exception".
Left(D, k, st, out) == [D |-> D, key |-> k, app |-> st, out |-> out]

\* overrideBuffer(act) around act.do() when self.key was unset: the receiving
\* deque was swapped for a fresh one and is restored after the yield.  An
\* exception thrown into the context manager's generator ends it at its
\* yield, so nothing after the yield runs.
processActSwapped(D, r) ==
  IF r.exc
    THEN Left(r.W, "act", r.app, "Exception")
    ELSE Left([D EXCEPT !.q = Front(D.q) \o <<r.a>>], "None", r.app, "ok")

\* The same when self.key was set: nothing is swapped, nothing restored.
processActKept(k, r) ==
  Left(Unmark(Sync(r.W, r.a)), k, r.app, IF r.exc THEN "Exception" ELSE "ok")

\* FRActionStack.processAct
processAct(D, k, st, fail) ==
  IF k = "None"
    THEN processActSwapped(D, do(Last(D.q), Deque(<<>>, 0), st, fail, TRUE))
    ELSE processActKept(k,
           do(Last(D.q),
              [D EXCEPT !.q = Front(D.q) \o <<[Last(D.q) EXCEPT !.cur = TRUE]>>],
              st, fail, TRUE))

undoDone(r) == IF r.out = "ok" THEN [r EXCEPT !.D = RotateRight(r.D)] ELSE r

\* undo with the rotation done before the action is processed, as redo does.
undo_rotatesFirst(D, k, st, fail) ==
  IF canUndo(D)
    THEN processAct(RotateRight(D), k, st, fail)
    ELSE Left(D, k, st, "FRUndoStackError")

\* undo that returns quietly when there is nothing to undo.
undo_quiet(D, k, st, fail) ==
  IF canUndo(D)
    THEN undoDone(processAct(D, k, st, fail))
    ELSE Left(D, k, st, "ok")

\* FRActionStack.undo
undo(D, k, st, fail) ==
  IF canUndo(D)
    THEN undoDone(processAct(D, k, st, fail))
    ELSE Left(D, k, st, "FRUndoStackError")

\* FRActionStack.redo
redo(D, k, st, fail) ==
  IF canRedo(D)
    THEN processAct(RotateLeft(D), k, st, fail)
    ELSE Left(D, k, st, "FRUndoStackError")

\* The class EMPTY, which _savepoint and cmpAction hold in place of an action;
\* the actions given to stack.append are 1, 2, ...
EMPTY == 0

\* FRActionStack.setSavepoint; U is self.undos, sp the savepoint before.
setSavepoint(D, U, sp) ==
  IF canUndo(D)
    THEN IF Len(U.q) = 0
           THEN [out |-> "IndexError", at |-> sp]
           ELSE [out |-> "ok", at |-> Last(U.q)]
    ELSE [out |-> "ok", at |-> EMPTY]

\* FRActionStack.hasChanged: `self._savepoint is not cmpAction`, or the
\* IndexError of self.undos[-1].
hasChanged(D, U, sp) ==
  IF canUndo(D)
    THEN IF Len(U.q) = 0 THEN "IndexError"
         ELSE IF sp # Last(U.q) THEN "True" ELSE "False"
    ELSE IF sp # EMPTY THEN "True" ELSE "False"

\* FRActionStack.append(action), self._receiver being self.undos.
append(U, action) == AppendRight(U, action)

innerDone(r) ==
  IF r.out = "ok" THEN [r EXCEPT !.D = flushUnusedRedos(r.D)] ELSE r

\* The wrapper `inner` that FRActionStack.undoable's decorator returns.
inner(D, k, st, kind, c, v, fail) ==
  innerDone(redo(AppendLeft(D, _FRAction(kind, c, v, <<>>, FALSE)), k, st, fail))

\* ------------------------------------------------------- the image pipeline
\* The focused image's pixels, and the components of the table (instance ids
\* with the masks their stored vertices enclose).
Pixels == {0, 1}
Comps == {1, 2}
compDf == [c \in Comps |-> IF c = 1 THEN {0} ELSE {1}]
\* INST_ID of the component series when nothing is focused.
NoComp == -1

\* Values of the history mask (PRJ_ENUMS.HISTORY_*).
UNSPEC == 0
BGND == 1
FGND == 2

\* Longest list of threads the task manager is given, and the number of draw
\* events that start a run.
MaxThreads == 2
MaxDraws == 3
\* The number of draw events where the region edits are kept for undo.
MaxEditDraws == 2

\* Where a run of the processor raises.
Raises == {"nowhere", "format_vertices", "later stage"}

ZeroMask == [p \in Pixels |-> UNSPEC]

\* np.any
any(m) == \E p \in Pixels : m[p] # 0

\* cv.fillPoly(mask, [verts], clr)
fillPoly(m, verts, clr) == [p \in Pixels |-> IF p \in verts THEN clr ELSE m[p]]

\* format_vertices, its first statement: the history mask the run starts from.
historyMask(first, keep, cache) ==
  IF first \/ ~keep \/ ~any(cache) THEN ZeroMask ELSE cache

\* format_vertices: background is painted before foreground; the painted mask
\* becomes procCache["mask"]; background-only vertices invert the semantics.
format_vertices(fg, bg, old, first, keep, cache) ==
  [cache |-> fillPoly(fillPoly(historyMask(first, keep, cache), bg, BGND),
                      fg, FGND),
   base |-> historyMask(first, keep, cache),
   asForeground |-> ~(fg = {} /\ bg # {}),
   foregroundVertices |-> IF fg = {} /\ bg # {} THEN bg ELSE fg,
   oldComponentMask |-> IF fg = {} /\ bg # {} THEN Pixels \ old ELSE old,
   unformattedOldComponentMask |-> old]

\* draw_vertices: the mask the foreground vertices enclose.
draw_vertices(fg) == fg

\* apply_process_result with the bounds of the whole image and no resizing:
\* OR for a foreground edit, NOR for a background edit.
apply_process_result(img, asForeground, old) ==
  IF asForeground THEN old \cup img ELSE Pixels \ (old \cup img)

\* The stages after format_vertices: the local area is the whole image, the
\* algorithm is draw_vertices, and return_to_full_size embeds the result at
\* the bounds it was cut from.
laterStages(io, exc) ==
  [exc |-> exc = "later stage",
   image |-> IF exc = "later stage" THEN {}
             ELSE apply_process_result(draw_vertices(io.foregroundVertices),
                                       io.asForeground, io.oldComponentMask),
   cache |-> io.cache, seen |-> TRUE, base |-> io.base]

\* processor.run(newIo, force=True): the stages in order, up to the one that
\* raises.  seen says format_vertices read the history; base is what it read.
processorRun(fg, bg, prev, first, keep, cache, exc) ==
  IF exc = "format_vertices"
    THEN [exc |-> TRUE, image |-> {}, cache |-> cache, seen |-> FALSE,
          base |-> ZeroMask]
    ELSE laterStages(format_vertices(fg, bg, prev, first, keep, cache), exc)

\* What a run of the wrapper leaves: raised (FRAlgProcessorError), warned,
\* the returned mask out (also self.output), the cache, and for the record
\* whether a stage raised (exc), prev, seen and base.
NoImageRun(cache) ==
  [raised |-> TRUE, warned |-> FALSE, out |-> {}, cache |-> cache,
   exc |-> FALSE, prev |-> {}, seen |-> FALSE, base |-> ZeroMask]

\* The wrapper that hands back whatever the stages left when one of them raised.
wrapperDone_partial(prev, r) ==
  [raised |-> FALSE, warned |-> r.exc, out |-> r.image, cache |-> r.cache,
   exc |-> r.exc, prev |-> prev, seen |-> r.seen, base |-> r.base]

\* FRImgProcWrapper.run from its try statement on: an exception of a stage
\* is turned into a warning and the result is the previous mask.
wrapperDone(prev, r) ==
  [raised |-> FALSE, warned |-> r.exc,
   out |-> IF r.exc THEN prev ELSE r.image, cache |-> r.cache,
   exc |-> r.exc, prev |-> prev, seen |-> r.seen, base |-> r.base]

\* FRImgProcWrapper.run; prev is {} where prevCompMask is None (zeros).
FRImgProcWrapper_run(img, prev, fg, bg, first, keep, cache, exc) ==
  IF ~img
    THEN NoImageRun(cache)
    ELSE wrapperDone(prev, processorRun(fg, bg, prev, first, keep, cache, exc))

\* -------------------------------------------------------- the task manager
\* AbortableThreadContainer and ThreadedFuncWrapper.  A thread is "pending"
\* until it is started, "running" until its function returned or raised, and
\* "done" until its completion signal was handled on the main thread.
Active(ts) == \E i \in DOMAIN ts : ts[i].st # "pending"

\* A container that starts whatever is pending.
updateThreads_startsAll(ts) ==
  [i \in DOMAIN ts |->
     [ts[i] EXCEPT !.st = IF @ = "pending" THEN "running" ELSE @]]

\* Start the oldest pending thread when no thread is active.
updateThreads(ts) ==
  IF ts = <<>> \/ Active(ts) THEN ts ELSE [ts EXCEPT ![1].st = "running"]

\* addThread(func, **kwargs): the new thread joins the end of the list.
addThread(ts, t) == updateThreads(Append(ts, t))

\* The list once the thread at i has finished and was removed.
threadFinished(ts, i) ==
  updateThreads(SubSeq(ts, 1, i - 1) \o SubSeq(ts, i + 1, Len(ts)))

\* QThread.isRunning
isRunning(t) == t.st = "running"

\* endThreads(threads, endRunning): a thread that was not started is dropped
\* from the list, a running one is terminated and dropped when endRunning is
\* set; a thread whose completion signal is on its way stays until the
\* signal was handled.
endThreads(ts, endRunning) ==
  SelectSeq(ts, LAMBDA t : t.st = "done" \/ (isRunning(t) /\ ~endRunning))

\* ------------------------------------------------------ the Vertices plugin
\* VerticesPlugin.endQueuedActions(endRunning); the reversed order ends the
\* threads that were not started first and leaves the same list.
endQueuedActions(ts, endRunning) == endThreads(ts, endRunning)

\* endQueuedActionsGui, its test: there are threads and all of them run.
onlyRunning(ts) == ts # <<>> /\ \A i \in DOMAIN ts : isRunning(ts[i])

\* A handler that ends whatever the list holds.
endQueuedActionsGui_force(ts, confirm) == endQueuedActions(ts, TRUE)

\* VerticesPlugin.endQueuedActionsGui; confirm says the user answered Yes
\* where the message box is shown.
endQueuedActionsGui(ts, confirm) ==
  IF onlyRunning(ts)
    THEN IF confirm THEN endQueuedActions(ts, TRUE) ELSE ts
    ELSE endQueuedActions(ts, FALSE)

NoRegion == [rows |-> FALSE, mask |-> {}]

NoCache == [none |-> TRUE, mask |-> ZeroMask]

NoRun == [ran |-> FALSE, exc |-> FALSE, raised |-> FALSE, warned |-> FALSE,
          prev |-> {}, ret |-> {}]

\* obs: fresh says the focus moved to another component, or the history was
\* cleared, and no run has read the history since; stale says the last run
\* that read the history was such a run and read marks; by is the thread
\* that last changed the widgets from a run's result; last is the last run
\* of the wrapper; ended is what the last click on the status button that
\* ended a thread did: "queued" where it ended threads that were not started,
\* "forced" where it ended a running thread after the user's Yes, "killed"
\* where it ended a running thread without; acc is about the runs that read
\* the history since the focus was last set and the history last cleared:
\* "none" where there was no such run, "first" where the last run was the
\* first of them, and for a later run "kept" where it read the mask as the
\* run before left it, "off" where it read zeros because keepVerticesHistory
\* was off, "dropped" where it read zeros with keepVerticesHistory on.
NoObs == [fresh |-> FALSE, stale |-> FALSE, by |-> "none", last |-> NoRun,
          ended |-> "none", acc |-> "none"]

\* edits: q are the edits that can be undone and r the undone ones that can
\* be redone, each oldest first; alias is the run whose edit holds the
\* dictionary that imageproc.procCache names, 0 where no edit holds it.  An
\* edit has the number of the run its mask came from, the component whose
\* rows it replaced, the region and the focus it found, the mask it set and
\* the cache it was given; of that run, started is the component that was
\* focused when run() was entered and before the history mask run() found.
NoEdits == [on |-> FALSE, q |-> <<>>, r |-> <<>>, alias |-> 0]

\* VerticesPlugin.__init__, the module's procCache, and a window with or
\* without an image, before anything is focused.
PlugInit ==
  /\ compSer = NoComp
  /\ region = NoRegion
  /\ procCache = ZeroMask
  /\ oldProcCache = NoCache
  /\ firstRun = TRUE
  /\ queueActions \in BOOLEAN
  /\ image \in BOOLEAN
  /\ threads = <<>>
  /\ arrivals = 0
  /\ obs = NoObs
  /\ edits = NoEdits

\* The plugin as the specifications of the undo stack hold it.
PlugIdle ==
  /\ compSer = NoComp
  /\ region = NoRegion
  /\ procCache = ZeroMask
  /\ oldProcCache = NoCache
  /\ firstRun = TRUE
  /\ queueActions = TRUE
  /\ image = TRUE
  /\ threads = <<>>
  /\ arrivals = 0
  /\ obs = NoObs
  /\ edits = NoEdits

\* The wrapper's run, the crop, the window and the dictionary as the other
\* specifications hold them: not used.
RestIdle == geo = <<>> /\ crop = <<>> /\ win = <<>> /\ msd = <<>>

\* ------------------------------------------------------- the stage registry
\* The names stages are registered and looked up under: the pipeline and the
\* stage AlgCollection.__init__ registers, a pipeline and two stages of the
\* user, a qualified name and a name nothing defines.
RegNames == {"None", "Fallthrough", "P", "h", "q"}

\* The functions stages wrap (0 for __init__'s lambda and for pipelines), the
\* one pydoc.locate finds under "pkg.q" and the one the module "ext" defines
\* under "h".
Funcs == {1, 2}
QualFunc == 1
ModuleFunc == 2

\* Most stage objects the model makes.
MaxObjs == 5

\* The values self.includeModules is loaded with: "ext" can be imported and
\* defines h, "bad" cannot be imported.
ModuleLists == {<<>>, <<"ext">>, <<"ext", "bad">>, <<"bad", "ext">>}
Locatable == {"ext"}
ModuleProcs(m) == IF m = "ext" THEN {"h"} ELSE {}

\* pydoc.locate(procName), as far as parseProcQualname tells its results apart.
locate(procName) == IF procName = "pkg.q" THEN "callable" ELSE "None"

\* The name AtomicProcess gives a stage made from a located function.
StageName(procName) == IF procName = "pkg.q" THEN "q" ELSE procName

\* A stage object.  disabled is the state the object owns; func also stands
\* for the value objects its input and result mappings refer to
\* (ioVals[func]); a pipeline holds at most one stage, by identity.
AtomicProcess(name, func) ==
  [name |-> name, nested |-> FALSE, func |-> func, disabled |-> FALSE,
   stage |-> 0]

NestedProcess(name, stage) ==
  [name |-> name, nested |-> TRUE, func |-> 0, disabled |-> FALSE,
   stage |-> stage]

\* What a registry holds under a name: nothing, a stage object, or the saved
\* state of a pipeline, the list of its stages' names.
NoEntry == [kind |-> "none", id |-> 0, stages |-> <<>>]
ObjEntry(id) == [kind |-> "obj", id |-> id, stages |-> <<>>]
ListEntry(names) == [kind |-> "list", id |-> 0, stages |-> names]

\* addProcess, its saveObj: {proc.name: proc} or proc.saveStateFlattened().
saveObj(hp, id) ==
  IF hp[id].nested
    THEN ListEntry(IF hp[id].stage = 0 THEN <<>>
                   ELSE <<hp[hp[id].stage].name>>)
    ELSE ObjEntry(id)

\* An addProcess that updates the registry whatever it holds.
addProcessTo_always(d, hp, id, force) ==
  [d EXCEPT ![hp[id].name] = saveObj(hp, id)]

\* addProcess, `if force or proc.name not in addDict: addDict.update(saveObj)`
addProcessTo(d, hp, id, force) ==
  IF force \/ d[hp[id].name].kind = "none"
    THEN [d EXCEPT ![hp[id].name] = saveObj(hp, id)]
    ELSE d

\* addProcess up to its loop; s holds the registries and the heap.
addProcessFlat(s, id, top, force) ==
  IF top THEN [s EXCEPT !.top = addProcessTo(s.top, s.heap, id, force)]
         ELSE [s EXCEPT !.prim = addProcessTo(s.prim, s.heap, id, force)]

\* AlgCollection.addProcess(proc, top, force): the stages of a pipeline are
\* added as primitives.
addProcess(s, id, top, force) ==
  IF s.heap[id].nested /\ s.heap[id].stage # 0
    THEN addProcessFlat(addProcessFlat(s, id, top, force), s.heap[id].stage,
                        FALSE, force)
    ELSE addProcessFlat(s, id, top, force)

\* What a loader hands back: the heap and the stage found (0 for None).
Loaded(hp, id) == [heap |-> hp, id |-> id]

\* AlgCollection._deepCopyProcShallowCopyIo: a new object with a copy of the
\* stage's own state and of its input mapping, whose values are the objects
\* the original's mapping holds; a pipeline's stage is copied the same way.
deepCopyProcShallowCopyIo(hp, id) ==
  IF hp[id].nested /\ hp[id].stage # 0
    THEN Loaded(Append(Append(hp, hp[hp[id].stage]),
                       [hp[id] EXCEPT !.stage = Len(hp) + 1]),
                Len(hp) + 2)
    ELSE Loaded(Append(hp, hp[id]), Len(hp) + 1)

\* AlgCollection.parseProcQualname
parseProcQualname(hp, procName) ==
  IF locate(procName) = "callable"
    THEN Loaded(Append(hp, AtomicProcess(StageName(procName), QualFunc)),
                Len(hp) + 1)
    ELSE Loaded(hp, 0)

\* The modules searchModulesForProc's loop stops at: one that cannot be
\* imported (parseProcModule raises) or one that defines the name.
ModuleHits(mods, procName) ==
  {i \in DOMAIN mods :
     mods[i] \notin Locatable \/ procName \in ModuleProcs(mods[i])}

FirstHit(mods, procName) ==
  CHOOSE i \in ModuleHits(mods, procName) :
    \A j \in ModuleHits(mods, procName) : i <= j

\* What a lookup found: where (via), the registry entry or the loaded stage
\* id, and the module named by parseProcModule's ValueError (err).
Found(via, entry, ld, err) ==
  [via |-> via, entry |-> entry, heap |-> ld.heap, id |-> ld.id, err |-> err]

\* AlgCollection.searchModulesForProc, with parseProcModule.
searchModulesForProc(hp, mods, procName) ==
  IF ModuleHits(mods, procName) = {}
    THEN Found("", NoEntry, Loaded(hp, 0), "")
    ELSE IF mods[FirstHit(mods, procName)] \notin Locatable
      THEN Found("", NoEntry, Loaded(hp, 0), mods[FirstHit(mods, procName)])
      ELSE Found("modules", NoEntry,
                 Loaded(Append(hp, AtomicProcess(procName, ModuleFunc)),
                        Len(hp) + 1), "")

\* The two loaders parseProcName tries after the registries.
loaders(ld, hp, mods, procName) ==
  IF ld.id # 0 THEN Found("qualname", NoEntry, ld, "")
  ELSE searchModulesForProc(hp, mods, procName)

\* dict.get(procName)
get(d, procName) == IF procName \in RegNames THEN d[procName] ELSE NoEntry

\* A parseProcName that searches the primitives first whatever topFirst is.
searchFuncs_primitivesFirst(s, mods, procName, topFirst) ==
  IF get(s.prim, procName).kind # "none"
    THEN Found("primitive", get(s.prim, procName),
               Loaded(s.heap, get(s.prim, procName).id), "")
  ELSE IF get(s.top, procName).kind # "none"
    THEN Found("top", get(s.top, procName),
               Loaded(s.heap, get(s.top, procName).id), "")
  ELSE loaders(parseProcQualname(s.heap, procName), s.heap, mods, procName)

\* parseProcName, its loop over searchFuncs: searchDicts[0], searchDicts[1],
\* parseProcQualname, searchModulesForProc.
searchFuncs(s, mods, procName, topFirst) ==
  IF get(IF topFirst THEN s.top ELSE s.prim, procName).kind # "none"
    THEN Found(IF topFirst THEN "top" ELSE "primitive",
               get(IF topFirst THEN s.top ELSE s.prim, procName),
               Loaded(s.heap,
                      get(IF topFirst THEN s.top ELSE s.prim, procName).id),
               "")
  ELSE IF get(IF topFirst THEN s.prim ELSE s.top, procName).kind # "none"
    THEN Found(IF topFirst THEN "primitive" ELSE "top",
               get(IF topFirst THEN s.prim ELSE s.top, procName),
               Loaded(s.heap,
                      get(IF topFirst THEN s.prim ELSE s.top, procName).id),
               "")
  ELSE loaders(parseProcQualname(s.heap, procName), s.heap, mods, procName)

\* What a call of parseProcName leaves: the registries and the heap, how it
\* ended (out: "ok", or the kind of ValueError, msg being the name its
\* message quotes), the stage returned and where it was found.
Parsed(s, out, msg, id, via) ==
  [prim |-> s.prim, top |-> s.top, heap |-> s.heap,
   out |-> out, msg |-> msg, id |-> id, via |-> via]

\* parseProcName from `if proc is None` on, for a stage object: the copy is
\* made, registered without force, and returned.
parseProcCopied(s, ld, top, via) ==
  Parsed(addProcess([s EXCEPT !.heap = ld.heap], ld.id,
                    top /\ ld.heap[ld.id].nested, FALSE),
         "ok", "", ld.id, via)

\* A parseProcName that returns None where nothing was found.
parseProcStage_quiet(s, procName, topFirst, f) ==
  IF f.err # "" THEN Parsed(s, "Module", f.err, 0, "")
  ELSE IF f.via = "" THEN Parsed(s, "ok", "", 0, "")
  ELSE Parsed(s, "ok", "", f.id, f.via)

\* parseProcName for a name whose registry entry is not a list of stages.
parseProcStage(s, procName, topFirst, f) ==
  IF f.err # "" THEN Parsed(s, "Module", f.err, 0, "")
  ELSE IF f.via = "" THEN Parsed(s, "Process", procName, 0, "")
  ELSE parseProcCopied(s, deepCopyProcShallowCopyIo(f.heap, f.id), topFirst,
                       f.via)

\* parseProcStages(stages, name) and the addProcess that follows it in
\* parseProcName: stg is what parsing the list's stage left (the list is
\* empty where stg.id is 0 and stg.out is "ok").
parseProcStages(stg, procName, topFirst, via) ==
  IF stg.out # "ok" THEN [stg EXCEPT !.via = ""]
  ELSE Parsed(addProcess([stg EXCEPT
                            !.heap = Append(@, NestedProcess(procName,
                                                             stg.id))],
                         Len(stg.heap) + 1, topFirst, FALSE),
              "ok", "", Len(stg.heap) + 1, via)

\* AlgCollection.parseProcName(procName, topFirst); the stage names of a
\* list are parsed with topFirst=False.
parseProcFound(s, mods, procName, topFirst, f) ==
  IF f.err = "" /\ f.entry.kind = "list"
    THEN parseProcStages(
           IF f.entry.stages = <<>>
             THEN Parsed(s, "ok", "", 0, "")
             ELSE parseProcStage(s, f.entry.stages[1], FALSE,
                                 searchFuncs(s, mods, f.entry.stages[1],
                                             FALSE)),
           procName, topFirst, f.via)
    ELSE parseProcStage(s, procName, topFirst, f)

parseProcName(s, mods, procName, topFirst) ==
  parseProcFound(s, mods, procName, topFirst,
                 searchFuncs(s, mods, procName, topFirst))

\* The collection's variables as the operators take them.
Clctn == [prim |-> primitiveProcs, top |-> topProcs, heap |-> heap]

\* look: the call made last (op, name, top or topFirst, force, and for
\* addProcess the function func of the stage given, or of the one stage of
\* the pipeline given, whose name is stage), how it ended (out, msg), the
\* stage it returned (id) and where parseProcName found it (via).
NoLook == [op |-> "init", name |-> "", top |-> FALSE, force |-> FALSE,
           func |-> 0, stage |-> "",
           out |-> "ok", msg |-> "", id |-> 0, via |-> ""]

\* AlgCollection.__init__ without a template: the pipeline "None" among the
\* top processes, the stage "Fallthrough" among the primitives.
AlgIdle ==
  /\ primitiveProcs = [n \in RegNames |->
                         IF n = "Fallthrough" THEN ObjEntry(1) ELSE NoEntry]
  /\ topProcs = [n \in RegNames |->
                   IF n = "None" THEN ListEntry(<<>>) ELSE NoEntry]
  /\ includeModules = <<>>
  /\ heap = <<AtomicProcess("Fallthrough", 0)>>
  /\ ioVals = [f \in 0..2 |-> FALSE]
  /\ look = NoLook

\* The names the model looks up.
LookupNames == {"P", "h", "pkg.q", "zz"}

\* The same with a template that names modules.
AlgInit ==
  /\ primitiveProcs = [n \in RegNames |->
                         IF n = "Fallthrough" THEN ObjEntry(1) ELSE NoEntry]
  /\ topProcs = [n \in RegNames |->
                   IF n = "None" THEN ListEntry(<<>>) ELSE NoEntry]
  /\ includeModules \in ModuleLists
  /\ heap = <<AtomicProcess("Fallthrough", 0)>>
  /\ ioVals = [f \in 0..2 |-> FALSE]
  /\ look = NoLook

\* The objects something still refers to: the registries, the stage the
\* last lookup returned (lk.id), and the stage of that pipeline.
Roots(s, lk) ==
  ({lk.id} \cup {s.prim[n].id : n \in RegNames}
     \cup {s.top[n].id : n \in RegNames}) \ {0}

Live(s, lk) ==
  Roots(s, lk) \cup ({s.heap[i].stage : i \in Roots(s, lk)} \ {0})

\* The references in a fixed order: the primitives by name, the top
\* processes by name, the returned stage and its stage.
RegOrder == <<"Fallthrough", "None", "P", "h", "q">>

StageOf(hp, i) == IF i = 0 THEN 0 ELSE hp[i].stage

Refs(s, lk) ==
  [k \in 1..5 |-> s.prim[RegOrder[k]].id]
    \o [k \in 1..5 |-> s.top[RegOrder[k]].id]
    \o <<lk.id, StageOf(s.heap, lk.id)>>

FirstRef(R, i) == CHOOSE k \in DOMAIN R : R[k] = i /\ \A j \in 1..(k - 1) : R[j] # i

\* The number object i gets among the objects L that are kept: the objects
\* are numbered in the order of their first reference fr.
Rank(L, fr) ==
  [i \in L \cup {0} |->
     IF i = 0 THEN 0 ELSE Cardinality({j \in L : fr[j] <= fr[i]})]

Kept(L, rk, k) == CHOOSE i \in L : rk[i] = k

Renumbered(d, rk) == [n \in RegNames |-> [d[n] EXCEPT !.id = rk[@]]]

\* The collection's variables after a call that left s and lk: objects
\* nothing refers to are freed, the others are numbered anew.
ClctnSettles(s, lk, L, rk) ==
  /\ primitiveProcs' = Renumbered(s.prim, rk)
  /\ topProcs' = Renumbered(s.top, rk)
  /\ heap' = [k \in 1..Cardinality(L) |->
                [s.heap[Kept(L, rk, k)] EXCEPT !.stage = rk[@]]]
  /\ look' = [lk EXCEPT !.id = rk[@]]

ClctnNumbered(s, lk, L, R) ==
  \E fr \in {[i \in L |-> FirstRef(R, i)]} :
    \E rk \in {Rank(L, fr)} : ClctnSettles(s, lk, L, rk)

ClctnBecomes(s, lk) ==
  \E L \in {Live(s, lk)}, R \in {Refs(s, lk)} :
    /\ Cardinality(L) <= MaxObjs
    /\ ClctnNumbered(s, lk, L, R)

\* The user makes a stage, or a pipeline "P" of one stage, and registers it:
\* AlgCollection.addProcess(proc, top, force).  The model registers stages
\* as primitives and pipelines in either namespace.
AddProcess(nested, name, func, top, force) ==
  /\ nested \/ (name = "h" /\ ~top)
  /\ IF nested
       THEN \E s \in {addProcess(
                        [Clctn EXCEPT
                           !.heap = Append(Append(@, AtomicProcess(name, func)),
                                           NestedProcess("P", Len(heap) + 1))],
                        Len(heap) + 2, top, force)} :
              ClctnBecomes(s, [NoLook EXCEPT !.op = "add", !.name = "P",
                                             !.top = top, !.force = force,
                                             !.func = func, !.stage = name])
       ELSE \E s \in {addProcess(
                        [Clctn EXCEPT
                           !.heap = Append(@, AtomicProcess(name, func))],
                        Len(heap) + 1, top, force)} :
              ClctnBecomes(s, [NoLook EXCEPT !.op = "add", !.name = name,
                                             !.top = top, !.force = force,
                                             !.func = func])
  /\ UNCHANGED <<includeModules, ioVals>>
  /\ UNCHANGED <<undoVars, plugVars, saveVars, restVars>>

ParseDone(r, procName, topFirst) ==
  ClctnBecomes(r, [NoLook EXCEPT !.op = "parse", !.name = procName,
                                  !.top = topFirst, !.out = r.out,
                                  !.msg = r.msg, !.id = r.id, !.via = r.via])

\* A call of AlgCollection.parseProcName(procName, topFirst).
ParseProcName(procName, topFirst) ==
  /\ \E r \in {parseProcName(Clctn, includeModules, procName, topFirst)} :
       ParseDone(r, procName, topFirst)
  /\ UNCHANGED <<includeModules, ioVals>>
  /\ UNCHANGED <<undoVars, plugVars, saveVars, restVars>>

\* The caller changes the stage the last lookup returned: its disabled flag,
\* or the value object its input mapping holds, in place.
Mutate(what) ==
  /\ look.op = "parse"
  /\ look.id # 0
  /\ heap' = [heap EXCEPT
                ![look.id].disabled = IF what = "disabled" THEN ~@ ELSE @]
  /\ ioVals' = IF what = "value"
                 THEN [ioVals EXCEPT ![heap[look.id].func] = TRUE]
                 ELSE ioVals
  /\ look' = [look EXCEPT !.op = "mutate"]
  /\ UNCHANGED <<primitiveProcs, topProcs, includeModules>>
  /\ UNCHANGED <<undoVars, plugVars, saveVars, restVars>>

AlgNext ==
  \/ \E nested \in BOOLEAN, name \in {"h", "q"}, func \in Funcs,
        top \in BOOLEAN, force \in BOOLEAN :
       AddProcess(nested, name, func, top, force)
  \/ \E procName \in LookupNames, topFirst \in BOOLEAN :
       ParseProcName(procName, topFirst)
  \/ \E what \in {"disabled", "value"} : Mutate(what)

\* ---------------------------------------------------------- the stack's user
ZeroApp == [c \in Cells |-> 0]

NoGroup == [open |-> FALSE, own |-> FALSE, app0 |-> ZeroApp]

\* Actions the stack still holds: the receiving deque, and the deque an open
\* group put aside.
Held == Len(actions.q) + (IF grp.open /\ grp.own THEN Len(saved.q) ELSE 0)

\* The calls made last, as far as they follow one of the two sequences
\*   call, undo, redo        (an undoable call outside a group, then ...)
\*   end, undo, redo         (a closed group, then ...)
\* a0 is the application state before the call (before the group was
\* entered), a1 the state after it; ind says the group's actions wrote
\* pairwise different cells, so that their order does not matter.
NoTrack == [op |-> "init", ph |-> "", a0 |-> ZeroApp, a1 |-> ZeroApp,
            ind |-> FALSE]

Track(op, ph, a0, a1, ind) ==
  hist' = IF ph = "" THEN [NoTrack EXCEPT !.op = op]
          ELSE [op |-> op, ph |-> ph, a0 |-> a0, a1 |-> a1, ind |-> ind]

\* The calls of undo() and redo() made since the last undoable call: base is
\* the application state they started from, d how many more actions were
\* undone than redone since, ok whether each redo() found an action to redo
\* while one was undone.  The record is kept where on is set.
NoLin == [on |-> FALSE, base |-> ZeroApp, d |-> 0, ok |-> TRUE]

Linear(op, out, st) ==
  lin' = IF ~lin.on THEN lin
         ELSE IF op = "undo" /\ out = "ok" THEN [lin EXCEPT !.d = @ + 1]
         ELSE IF op = "undo" /\ out = "FRUndoStackError" THEN lin
         ELSE IF op = "redo" /\ out = "ok" /\ lin.d > 0
           THEN [lin EXCEPT !.d = @ - 1]
         ELSE IF op = "redo" /\ out = "FRUndoStackError"
           THEN [lin EXCEPT !.ok = (lin.d = 0)]
         ELSE [on |-> TRUE, base |-> st, d |-> 0, ok |-> TRUE]

Independent(buf) ==
  /\ Len(buf) >= 1
  /\ \A i, j \in DOMAIN buf : i # j => buf[i].cell # buf[j].cell

UndoInit ==
  /\ app = ZeroApp
  /\ maxlen \in MaxLens
  /\ actions = Deque(<<>>, 2 * maxlen)
  /\ saved = Deque(<<>>, 0)
  /\ key = "None"
  /\ grp = NoGroup
  /\ res = "ok"
  /\ hist = NoTrack
  /\ lin = NoLin
  /\ undos = Deque(<<>>, maxlen)
  /\ savepoint = [at |-> EMPTY, set |-> FALSE]

\* The stack's variables after a call that left r behind.
StackBecomes(r) ==
  /\ actions' = r.D
  /\ key' = r.key
  /\ app' = r.app
  /\ res' = r.out

CallDone(r) ==
  /\ StackBecomes(r)
  /\ IF r.out # "ok" /\ grp.open
       THEN grp' = NoGroup /\ saved' = Deque(<<>>, 0)
       ELSE UNCHANGED <<grp, saved>>
  /\ Track("call", IF r.out = "ok" /\ ~grp.open THEN "call" ELSE "",
           app, r.app, FALSE)
  /\ Linear("call", r.out, r.app)

\* A call of an undoable function.  An exception raised inside a group block
\* leaves the block: group's and overrideBuffer's generators end at their
\* yields, the buffer stays the receiver and no group action is appended.
Call(kind, c, v, fail, bound) ==
  /\ Len(actions.q) < (IF grp.open /\ grp.own THEN MaxGroup ELSE bound)
  /\ CallDone(inner(actions, key, app, kind, c, v, fail))
  /\ UNCHANGED maxlen
  /\ UNCHANGED <<plugVars, saveVars, algVars, restVars>>

UndoDone(r) ==
  /\ StackBecomes(r)
  /\ Track("undo",
           IF r.out = "ok" /\ hist.ph \in {"call", "end"}
             THEN IF hist.ph = "call" THEN "call.undo" ELSE "end.undo"
             ELSE "",
           hist.a0, hist.a1, hist.ind)
  /\ Linear("undo", r.out, r.app)

\* A call of stack.undo()
Undo(fail) ==
  /\ ~grp.open
  /\ (fail => canUndo(actions))
  /\ UndoDone(undo(actions, key, app, fail))
  /\ UNCHANGED <<saved, grp, maxlen>>
  /\ UNCHANGED <<plugVars, saveVars, algVars, restVars>>

RedoDone(r, fail) ==
  /\ StackBecomes(r)
  /\ Track("redo",
           IF hist.ph = "call.undo" /\ ~fail THEN "call.undo.redo"
           ELSE IF hist.ph = "end.undo" /\ ~fail THEN "end.undo.redo"
           ELSE "",
           hist.a0, hist.a1, hist.ind)
  /\ Linear("redo", r.out, r.app)

\* A call of stack.redo()
Redo(fail) ==
  /\ ~grp.open
  /\ (fail => canRedo(actions))
  /\ RedoDone(redo(actions, key, app, fail), fail)
  /\ UNCHANGED <<saved, grp, maxlen>>
  /\ UNCHANGED <<plugVars, saveVars, algVars, restVars>>

\* Entering `with stack.group(desc)`: overrideBuffer(self, newActBuffer) up to
\* its yield.
GroupBegin ==
  /\ ~grp.open
  /\ IF key = "None"
       THEN /\ saved' = actions
            /\ actions' = Deque(<<>>, 0)
            /\ key' = "stack"
            /\ grp' = [open |-> TRUE, own |-> TRUE, app0 |-> app]
       ELSE /\ grp' = [open |-> TRUE, own |-> FALSE, app0 |-> app]
            /\ UNCHANGED <<saved, actions, key>>
  /\ res' = "ok"
  /\ Track("begin", "", app, app, FALSE)
  /\ UNCHANGED <<app, maxlen, lin>>
  /\ UNCHANGED <<plugVars, saveVars, algVars, restVars>>

\* Leaving the group block normally: overrideBuffer after its yield, then the
\* group action is appended to self.actions.
GroupEnd ==
  /\ grp.open
  /\ Len((IF grp.own THEN saved ELSE actions).q) < MaxGrpActs
  /\ IF key = "stack" /\ ~grp.own
       THEN \* oldActions was never bound: NameError -> FRUndoStackError
            /\ key' = "None"
            /\ res' = "FRUndoStackError"
            /\ UNCHANGED <<actions, saved>>
            /\ Track("end", "", app, app, FALSE)
       ELSE LET buf  == IF grp.own THEN actions.q ELSE <<>>
                back == IF grp.own THEN saved ELSE actions
            IN /\ actions' = AppendRight(back, _FRAction("grp", 0, 0, buf, TRUE))
               /\ saved' = Deque(<<>>, 0)
               /\ key' = IF grp.own THEN "None" ELSE key
               /\ res' = "ok"
               /\ Track("end", IF grp.own THEN "end" ELSE "", grp.app0, app,
                        Independent(buf))
  /\ grp' = NoGroup
  /\ UNCHANGED <<app, maxlen, lin>>
  /\ UNCHANGED <<plugVars, saveVars, algVars, restVars>>

\* Each undoable function writes its own part of the application state:
\* cell 0 is restored by assignment (VerticesPlugin.updateRegionUndoable),
\* the other cells by calling the function again (FRFocusedImage.updateAll).
Kind(c) == IF c = 0 THEN "set" ELSE "nest"

\* The stack driven without groups; any do or undo block may raise.
UndoNext ==
  \/ \E c \in Cells, v \in Vals, fail \in BOOLEAN :
       Call(Kind(c), c, v, fail, MaxActs)
  \/ \E fail \in BOOLEAN : Undo(fail)
  \/ \E fail \in BOOLEAN : Redo(fail)

\* A fresh stack, beside a plugin and a collection that are left alone.
StackInit == UndoInit /\ PlugIdle /\ AlgIdle /\ RestIdle

SpecUndo == StackInit /\ [][UndoNext]_vars

\* Most actions the model gives to stack.append.
MaxAppends == 2

\* A call of stack.setSavepoint()
SetSavepoint ==
  /\ ~grp.open
  /\ LET r == setSavepoint(actions, undos, savepoint.at)
     IN /\ savepoint' = [at |-> r.at, set |-> savepoint.set \/ r.out = "ok"]
        /\ res' = r.out
  /\ Track("save", "", app, app, FALSE)
  /\ UNCHANGED <<app, actions, saved, key, grp, maxlen, lin, undos>>
  /\ UNCHANGED <<plugVars, algVars, restVars>>

\* An action object nothing the stack can compare with refers to.
NewAction ==
  1 + (CHOOSE n \in 0..MaxAppends :
         /\ n >= savepoint.at
         /\ \A i \in DOMAIN undos.q : n >= undos.q[i]
         /\ \A m \in 0..MaxAppends :
              (m >= savepoint.at /\ \A i \in DOMAIN undos.q : m >= undos.q[i])
                => n <= m)

\* A call of stack.append(action) with a new action.
StackAppend ==
  /\ ~grp.open
  /\ NewAction <= MaxAppends
  /\ undos' = append(undos, NewAction)
  /\ res' = "ok"
  /\ Track("append", "", app, app, FALSE)
  /\ UNCHANGED <<app, actions, saved, key, grp, maxlen, lin, savepoint>>
  /\ UNCHANGED <<plugVars, algVars, restVars>>

\* The stack driven with savepoints; no block raises.
SaveNext ==
  \/ \E c \in Cells, v \in Vals : Call(Kind(c), c, v, FALSE, MaxActs)
  \/ Undo(FALSE)
  \/ Redo(FALSE)
  \/ SetSavepoint
  \/ StackAppend

SpecSave == StackInit /\ [][SaveNext]_vars

\* The stack driven with groups; no block raises.
GroupNext ==
  \/ \E c \in Cells, v \in Vals : Call(Kind(c), c, v, FALSE, MaxGrpActs)
  \/ Undo(FALSE)
  \/ Redo(FALSE)
  \/ GroupBegin
  \/ GroupEnd

SpecGroup == StackInit /\ [][GroupNext]_vars

\* A fresh stack whose runs of undo() and redo() calls are kept.
LinInit ==
  /\ app = ZeroApp
  /\ maxlen \in MaxLens
  /\ actions = Deque(<<>>, 2 * maxlen)
  /\ saved = Deque(<<>>, 0)
  /\ key = "None"
  /\ grp = NoGroup
  /\ res = "ok"
  /\ hist = NoTrack
  /\ lin = [NoLin EXCEPT !.on = TRUE]
  /\ undos = Deque(<<>>, maxlen)
  /\ savepoint = [at |-> EMPTY, set |-> FALSE]

LinearInit == LinInit /\ PlugIdle /\ AlgIdle /\ RestIdle

\* The stack driven without groups; no block raises.
LinNext ==
  \/ \E c \in Cells, v \in Vals : Call(Kind(c), c, v, FALSE, MaxActs)
  \/ Undo(FALSE)
  \/ Redo(FALSE)

SpecLin == LinearInit /\ [][LinNext]_vars

\* ------------------------------------------- the Vertices plugin's handlers
\* VerticesPlugin.run up to the return of curProcessor.run: the wrapper runs
\* on the image, the region's mask, the vertices under their keyword and
\* self.firstRun.
VerticesPlugin_run(k, verts, exc, keep) ==
  FRImgProcWrapper_run(image, region.mask,
                       IF k = "fgVerts" THEN verts ELSE {},
                       IF k = "bgVerts" THEN verts ELSE {},
                       firstRun, keep, procCache, exc)

\* run(..., updateGui=True).
updateGui_set == TRUE

\* The updateGui argument of the runs _runFromDrawAct starts: it passes the
\* vertices only, so run's default applies.
updateGui == FALSE

\* The edits es once procCache["mask"] was assigned m: the edit that holds the
\* dictionary procCache names holds m.
Repaint(q, alias, m) ==
  [i \in DOMAIN q |->
     IF q[i].id = alias THEN [q[i] EXCEPT !.cache.mask = m] ELSE q[i]]

Painted(es, m) ==
  IF es.on
    THEN [es EXCEPT !.q = Repaint(@, es.alias, m), !.r = Repaint(@, es.alias, m)]
    ELSE es

\* What updateRegionFromMask is told of the run a mask came from: its number,
\* self.oldProcCache, and started and before as the edit keeps them.
Run(id, cache, started, before) ==
  [id |-> id, cache |-> cache, started |-> started, before |-> before]

\* VerticesPlugin.updateRegionFromMask(mask), which calls
\* updateRegionUndoable with self.oldProcCache: the region's rows are replaced
\* under the id the region had, and the edit joins the undoable actions with
\* the old rows and the cache it was given; the undone actions are dropped.
\* es are the edits when it is called.
updateRegionFromMask(mask, es, run) ==
  /\ region' = [rows |-> TRUE, mask |-> mask]
  /\ edits' = IF es.on
                THEN [es EXCEPT !.q = Append(@, [id |-> run.id,
                                                 comp |-> compSer,
                                                 oldComp |-> compSer,
                                                 old |-> region,
                                                 new |-> mask,
                                                 cache |-> run.cache,
                                                 started |-> run.started,
                                                 before |-> run.before]),
                                !.r = <<>>]
                ELSE es

\* An updateGuiFromProcessor that leaves self.firstRun as it is.
updateGuiFromProcessor_keepsFirst(result, es, run) ==
  /\ firstRun' = firstRun
  /\ IF result # region.mask
       THEN updateRegionFromMask(result, es, run)
       ELSE region' = region /\ edits' = es

\* VerticesPlugin.updateGuiFromProcessor(procResult)
updateGuiFromProcessor(result, es, run) ==
  /\ firstRun' = FALSE
  /\ IF result # region.mask
       THEN updateRegionFromMask(result, es, run)
       ELSE region' = region /\ edits' = es

\* The cache assignments of run: self.oldProcCache before the processor
\* runs, procCache["mask"] by format_vertices.
RunCaches(r) ==
  /\ oldProcCache' = [none |-> FALSE, mask |-> procCache]
  /\ procCache' = r.cache

\* obs.acc after a run that read the history mask base.
Accumulated(base) ==
  IF obs.acc = "none" THEN "first"
  ELSE IF base = procCache THEN "kept"
  ELSE IF firstRun THEN "dropped" ELSE "off"

\* obs becomes o; where the region edits are kept, edits is what is seen of
\* the handlers and obs stays as it is.
Seen(o) == obs' = IF edits.on THEN obs ELSE o

\* obs after a run of the wrapper that left r.
Observe(r, th) ==
  Seen([fresh |-> IF r.seen THEN FALSE ELSE obs.fresh,
        stale |-> IF r.seen THEN obs.fresh /\ any(r.base) ELSE obs.stale,
        by |-> th, ended |-> obs.ended,
        acc |-> IF r.seen THEN Accumulated(r.base) ELSE obs.acc,
        last |-> [ran |-> TRUE, exc |-> r.exc, raised |-> r.raised,
                  warned |-> r.warned, prev |-> r.prev, ret |-> r.out]])

\* The number of draw events a behaviour has at most.
DrawBound == IF edits.on THEN MaxEditDraws ELSE MaxDraws

\* _runFromDrawAct with queueActions set: the run is handed to the task
\* manager.
DrawQueued(k, verts) ==
  /\ Len(threads) < MaxThreads
  /\ threads' = addThread(threads,
                          [arr |-> arrivals + 1, key |-> k, verts |-> verts,
                           st |-> "pending", ok |-> TRUE, result |-> {},
                           comp |-> NoComp, before |-> ZeroMask])
  /\ arrivals' = arrivals + 1
  /\ UNCHANGED <<region, procCache, oldProcCache, firstRun, obs, edits>>

\* _runFromDrawAct without queueActions: run, then updateGuiFromProcessor;
\* the wrapper's FRAlgProcessorError leaves the handler.
DrawNow(r) ==
  /\ RunCaches(r)
  /\ IF r.raised
       THEN /\ UNCHANGED <<region, firstRun>>
            /\ edits' = Painted(edits, r.cache)
            /\ Observe(r, obs.by)
       ELSE /\ updateGuiFromProcessor(r.out, Painted(edits, r.cache),
                                       Run(arrivals + 1, oldProcCache',
                                           compSer, procCache))
            /\ Observe(r, "main")
  /\ arrivals' = arrivals + 1
  /\ UNCHANGED threads

\* VerticesPlugin._runFromDrawAct(verts, param), on the main thread.
\* intersects is compDisplay.selectionIntersectsRegion(verts); exc and keep
\* (keepVerticesHistory) matter to the run made at once only, a queued run
\* meets them in WorkerRun.  intersects is read where the region is empty,
\* keep where format_vertices is entered.
RunFromDrawAct(k, verts, intersects, exc, keep) ==
  /\ arrivals < DrawBound
  /\ queueActions => (exc = "nowhere" /\ keep)
  /\ region.rows => ~intersects
  /\ exc = "format_vertices" => keep
  /\ IF ~region.rows /\ intersects
       THEN UNCHANGED <<region, procCache, oldProcCache, firstRun, threads,
                       arrivals, obs, edits>>
       ELSE IF queueActions
              THEN DrawQueued(k, verts)
              ELSE DrawNow(VerticesPlugin_run(k, verts, exc, keep))
  /\ UNCHANGED <<compSer, queueActions, image>>
  /\ UNCHANGED <<undoVars, saveVars, algVars, restVars>>

WorkerDone(i, r, gui) ==
  /\ RunCaches(r)
  /\ threads' = [threads EXCEPT ![i].st = "done", ![i].ok = ~r.raised,
                                ![i].result = r.out,
                                ![i].comp = IF edits.on THEN compSer ELSE @,
                                ![i].before = IF edits.on THEN procCache ELSE @]
  /\ IF gui /\ ~r.raised
       THEN /\ updateGuiFromProcessor(r.out, Painted(edits, r.cache),
                                       Run(threads[i].arr, oldProcCache',
                                           compSer, procCache))
            /\ Observe(r, "worker")
       ELSE /\ UNCHANGED <<region, firstRun>>
            /\ edits' = Painted(edits, r.cache)
            /\ Observe(r, obs.by)

\* The worker thread of the running thread i executes VerticesPlugin.run;
\* keep is read where format_vertices is entered.
WorkerRun(i, exc, keep) ==
  /\ threads[i].st = "running"
  /\ exc = "format_vertices" => keep
  /\ WorkerDone(i, VerticesPlugin_run(threads[i].key, threads[i].verts, exc,
                                      keep), updateGui)
  /\ UNCHANGED <<compSer, queueActions, image, arrivals>>
  /\ UNCHANGED <<undoVars, saveVars, algVars, restVars>>

\* The completion signal of thread i, handled on the main thread:
\* VerticesPlugin._onThreadFinished(thread, ex), and the task manager drops
\* the thread and starts the next.
ThreadFinished(i) ==
  /\ threads[i].st = "done"
  /\ IF threads[i].ok
       THEN /\ updateGuiFromProcessor(threads[i].result, edits,
                                       Run(threads[i].arr, oldProcCache,
                                           threads[i].comp, threads[i].before))
            /\ Seen([obs EXCEPT !.by = "main"])
       ELSE UNCHANGED <<region, firstRun, obs, edits>>
  /\ threads' = threadFinished(threads, i)
  /\ UNCHANGED <<compSer, procCache, oldProcCache, queueActions, image,
                 arrivals>>
  /\ UNCHANGED <<undoVars, saveVars, algVars, restVars>>

\* VerticesPlugin.updateFocusedComp(newComp), what it leaves in firstRun; cs
\* is mainImg.compSer[INST_ID] when it is called.
updateFocusedComp(cs, given, newId) ==
  IF cs = NoComp THEN firstRun
  ELSE IF ~given \/ cs # newId THEN TRUE ELSE firstRun

\* The focus moves to new: the main image's compSer is replaced and the
\* plugin's updateFocusedComp is called, with the new component or without
\* an argument.  updateRegionFromDf shows the component's vertices, or
\* nothing where there is no image or no component.
FocusSwitch(new, given) ==
  /\ compSer' = new
  /\ region' = IF new = NoComp \/ ~image
                 THEN NoRegion
                 ELSE [rows |-> TRUE, mask |-> compDf[new]]
  /\ firstRun' = updateFocusedComp(new, given, new)
  /\ Seen([obs EXCEPT !.fresh = @ \/ (compSer \in Comps /\ new \in Comps
                                      /\ new # compSer),
                      !.acc = "none"])
  /\ UNCHANGED <<procCache, oldProcCache, queueActions, image, threads,
                 arrivals, edits>>
  /\ UNCHANGED <<undoVars, saveVars, algVars, restVars>>

\* What a click that turned the list ts into ts2 ended; yes says the message
\* box was shown and answered Yes.
Ended(ts, ts2, yes) ==
  IF \E i \in DOMAIN ts :
       isRunning(ts[i]) /\ \A j \in DOMAIN ts2 : ts2[j].arr # ts[i].arr
    THEN IF yes THEN "forced" ELSE "killed"
    ELSE IF Len(ts2) < Len(ts) THEN "queued" ELSE obs.ended

\* How far VerticesPlugin.run got on a worker thread that is terminated.
Reached == {"nothing", "oldProcCache", "procCache"}

\* The caches a terminated run leaves: untouched, or self.oldProcCache
\* assigned, or the history mask painted by format_vertices as well.
Terminated(i, reached, keep) ==
  /\ oldProcCache' = IF reached = "nothing" THEN oldProcCache
                     ELSE [none |-> FALSE, mask |-> procCache]
  /\ procCache' = IF reached = "procCache" /\ image
                    THEN VerticesPlugin_run(threads[i].key, threads[i].verts,
                                            "nowhere", keep).cache
                    ELSE procCache

\* A click on the status button: VerticesPlugin.endQueuedActionsGui.
\* reached and keep matter where a running thread is terminated only.
EndQueuedActionsGui(confirm, reached, keep) ==
  /\ (onlyRunning(threads) /\ confirm) \/ (reached = "nothing" /\ keep)
  /\ reached = "procCache" \/ keep
  /\ threads' = endQueuedActionsGui(threads, confirm)
  /\ Seen([obs EXCEPT !.ended = Ended(threads, threads',
                                      onlyRunning(threads) /\ confirm)])
  /\ IF \E i \in DOMAIN threads : isRunning(threads[i])
       THEN LET i == CHOOSE j \in DOMAIN threads : isRunning(threads[j])
            IN IF \A j \in DOMAIN threads' : threads'[j].arr # threads[i].arr
                 THEN Terminated(i, reached, keep)
                 ELSE UNCHANGED <<procCache, oldProcCache>>
       ELSE UNCHANGED <<procCache, oldProcCache>>
  /\ edits' = Painted(edits, procCache')
  /\ UNCHANGED <<compSer, region, firstRun, queueActions, image, arrivals>>
  /\ UNCHANGED <<undoVars, saveVars, algVars, restVars>>

\* VerticesPlugin.clearProcessorHistory
ClearProcessorHistory ==
  /\ procCache' = ZeroMask
  /\ edits' = Painted(edits, ZeroMask)
  /\ Seen([obs EXCEPT !.fresh = TRUE, !.acc = "none"])
  /\ UNCHANGED <<compSer, region, oldProcCache, firstRun, queueActions, image,
                 threads, arrivals>>
  /\ UNCHANGED <<undoVars, saveVars, algVars, restVars>>

PlugNext ==
  \/ \E k \in {"fgVerts", "bgVerts"}, p \in Pixels, intersects \in BOOLEAN,
        exc \in Raises, keep \in BOOLEAN :
       RunFromDrawAct(k, {p}, intersects, exc, keep)
  \/ \E i \in DOMAIN threads, exc \in Raises, keep \in BOOLEAN :
       WorkerRun(i, exc, keep)
  \/ \E i \in DOMAIN threads : ThreadFinished(i)
  \/ \E new \in Comps \cup {NoComp}, given \in BOOLEAN : FocusSwitch(new, given)
  \/ ClearProcessorHistory
  \/ \E confirm \in BOOLEAN, reached \in Reached, keep \in BOOLEAN :
       EndQueuedActionsGui(confirm, reached, keep)

\* The undo stack as the plugin's specification holds it.
UndoIdle == UndoInit /\ maxlen = 0

\* A fresh plugin, beside a stack and a collection that are left alone.
PluginInit == PlugInit /\ UndoIdle /\ AlgIdle /\ RestIdle

SpecPlugin == PluginInit /\ [][PlugNext]_vars

\* What updateRegionFromDf(data) leaves where the id of the rows is id:
\* _maybeChangeFocusedComp moves the focus to id first where another
\* component is focused, and the rows are shown where there is an image.
\* given is whether updateFocusedComp receives the component then.
updateRegionFromDf(data, id, given) ==
  /\ compSer' = id
  /\ firstRun' = IF id # compSer THEN updateFocusedComp(id, given, id)
                 ELSE firstRun
  /\ region' = IF image THEN data ELSE NoRegion

\* undo() on the stack that holds the region edits runs updateRegionUndoable
\* from its yield on: imageproc.procCache becomes the dictionary the edit was
\* given, and updateRegionFromDf shows the old rows.
UndoRegion(given) ==
  /\ edits.q # <<>>
  /\ \E e \in {edits.q[Len(edits.q)]} :
       /\ procCache' = IF e.cache.none THEN procCache ELSE e.cache.mask
       /\ updateRegionFromDf(e.old, e.oldComp, given)
       /\ edits' = [edits EXCEPT !.q = SubSeq(@, 1, Len(@) - 1),
                                 !.r = Append(@, e),
                                 !.alias = IF e.cache.none THEN @ ELSE e.id]
  /\ UNCHANGED <<oldProcCache, queueActions, image, threads, arrivals, obs>>
  /\ UNCHANGED <<undoVars, saveVars, algVars, restVars>>

\* redo() on that stack calls updateRegionUndoable with the arguments of the
\* undone edit again, which runs up to its yield: it copies the rows shown
\* and shows the edit's rows.
RedoRegion(given) ==
  /\ edits.r # <<>>
  /\ \E e \in {edits.r[Len(edits.r)]} :
       /\ updateRegionFromDf([rows |-> TRUE, mask |-> e.new], e.comp, given)
       /\ edits' = [edits EXCEPT !.r = SubSeq(@, 1, Len(@) - 1),
                                 !.q = Append(@, [e EXCEPT !.old = region,
                                                           !.oldComp = compSer])]
  /\ UNCHANGED <<procCache, oldProcCache, queueActions, image, threads,
                 arrivals, obs>>
  /\ UNCHANGED <<undoVars, saveVars, algVars, restVars>>

\* A plugin whose region edits are kept for undo, in a window with an image.
EditInit ==
  /\ compSer = NoComp
  /\ region = NoRegion
  /\ procCache = ZeroMask
  /\ oldProcCache = NoCache
  /\ firstRun = TRUE
  /\ queueActions \in BOOLEAN
  /\ image = TRUE
  /\ threads = <<>>
  /\ arrivals = 0
  /\ obs = NoObs
  /\ edits = [NoEdits EXCEPT !.on = TRUE]

EditsInit == EditInit /\ UndoIdle /\ AlgIdle /\ RestIdle

\* Draw events outside the shown components with keepVerticesHistory on,
\* their runs, focus changes that hand the component to updateFocusedComp,
\* clicks on the status button, undo and redo.
EditNext ==
  \/ \E k \in {"fgVerts", "bgVerts"}, p \in Pixels, exc \in Raises :
       RunFromDrawAct(k, {p}, FALSE, exc, TRUE)
  \/ \E i \in DOMAIN threads, exc \in Raises : WorkerRun(i, exc, TRUE)
  \/ \E i \in DOMAIN threads : ThreadFinished(i)
  \/ \E new \in Comps \cup {NoComp} : FocusSwitch(new, TRUE)
  \/ \E confirm \in BOOLEAN, reached \in Reached :
       EndQueuedActionsGui(confirm, reached, TRUE)
  \/ UndoRegion(TRUE)
  \/ RedoRegion(TRUE)

SpecEdit == EditsInit /\ [][EditNext]_vars

\* A collection, beside a stack and a plugin that are left alone.
ClctnInit == AlgInit /\ UndoIdle /\ PlugIdle /\ RestIdle

SpecAlg == ClctnInit /\ [][AlgNext]_vars

\* ------------------------------------------- a run on vertices of any number
\* disallow_paint_tool(_image, foregroundVertices, backgroundVertices):
\* whether it raises ValueError, which it does where the two lists of
\* vertices stacked have fewer than two rows.
disallow_paint_tool(fg, bg) == Cardinality(fg) + Cardinality(bg) < 2

\* An image, a previous mask and vertices of any number, before the wrapper
\* of a processor with disallow_paint_tool among its stages is run on them.
GeomInit ==
  /\ geo \in [fg : SUBSET Pixels, bg : SUBSET Pixels, prev : SUBSET Pixels,
               first : BOOLEAN, ran : {FALSE}, raised : {FALSE},
               warned : {FALSE}, out : {{}}]
  /\ crop = <<>> /\ win = <<>> /\ msd = <<>>
  /\ UndoIdle /\ PlugIdle /\ AlgIdle

\* FRImgProcWrapper.run(image, prevCompMask, fgVerts, bgVerts, firstRun): the
\* stage disallow_paint_tool raises or hands the image on.
GeomRun ==
  /\ ~geo.ran
  /\ \E r \in {FRImgProcWrapper_run(TRUE, geo.prev, geo.fg, geo.bg, geo.first,
                                     TRUE, ZeroMask,
                                     IF disallow_paint_tool(geo.fg, geo.bg)
                                       THEN "later stage" ELSE "nowhere")} :
       geo' = [geo EXCEPT !.ran = TRUE, !.raised = r.raised,
                          !.warned = r.warned, !.out = r.out]
  /\ UNCHANGED <<crop, win, msd>>
  /\ UNCHANGED <<undoVars, plugVars, saveVars, algVars>>

SpecGeom == GeomInit /\ [][GeomRun]_vars

\* ------------------------------------------------------ the local area
\* Images have up to MaxSide rows and columns; vertices lie up to MaxFar
\* outside of them.
MaxSide == 2
MaxFar == 3

\* np.clip(v, lo, hi) of one number
clip(v, lo, hi) == IF v < lo THEN lo ELSE IF v > hi THEN hi ELSE v

\* A getClippedBbox that clips x and y against rows and columns in the order
\* arrShape has them.
getClippedBbox_unreversed(arrShape, bbox, margin) ==
  << <<clip(bbox[1][1] - margin, 0, arrShape[1]),
       clip(bbox[1][2] - margin, 0, arrShape[2])>>,
     <<clip(bbox[2][1] + margin + 1, 0, arrShape[1]),
       clip(bbox[2][2] + margin + 1, 0, arrShape[2])>> >>

\* getClippedBbox(arrShape, bbox, margin): arrShape is <<rows, columns>>, bbox
\* is <<<<minX, minY>>, <<maxX, maxY>>>>; x is clipped against the columns and
\* y against the rows.
getClippedBbox(arrShape, bbox, margin) ==
  << <<clip(bbox[1][1] - margin, 0, arrShape[2]),
       clip(bbox[1][2] - margin, 0, arrShape[1])>>,
     <<clip(bbox[2][1] + margin + 1, 0, arrShape[2]),
       clip(bbox[2][2] + margin + 1, 0, arrShape[1])>> >>

\* np.vstack([verts.min(0), verts.max(0)]): the least and the greatest x and
\* y of verts.
compCoords(verts) ==
  << <<CHOOSE x \in {v[1] : v \in verts} : \A v \in verts : x <= v[1],
       CHOOSE y \in {v[2] : v \in verts} : \A v \in verts : y <= v[2]>>,
     <<CHOOSE x \in {v[1] : v \in verts} : \A v \in verts : x >= v[1],
       CHOOSE y \in {v[2] : v \in verts} : \A v \in verts : y >= v[2]>> >>

\* getCroppedImg(image, verts, margin), the coordinates it returns.
getCroppedImg(shape, verts, margin) ==
  getClippedBbox(shape, compCoords(verts), margin)

\* int(round(max(vertArea_rowCol) * (marginPct / 100))) for a percentage that
\* is not negative; bbox is compCoords of the vertices, and round() takes a
\* half to the even neighbour.
marginOf(bbox, marginPct) ==
  LET dx == bbox[2][1] - bbox[1][1]
      dy == bbox[2][2] - bbox[1][2]
      n == (IF dx > dy THEN dx ELSE dy) * marginPct
  IN  IF 2 * (n % 100) < 100 THEN n \div 100
      ELSE IF 2 * (n % 100) > 100 THEN n \div 100 + 1
      ELSE n \div 100 + ((n \div 100) % 2)

\* The vertices crop_to_local_area crops around.  roi are the foreground and
\* background vertices, comp the vertices of the previous component;
\* image.shape[:2] is taken as a vertex where the reference is the image.
allVerts(shape, roi, comp, viewbox, reference) ==
  IF reference = "image" THEN {<<0, 0>>, shape}
  ELSE IF reference = "roi" /\ Cardinality(roi) > 1 THEN roi
  ELSE IF reference = "component" /\ Cardinality(comp \cup roi) > 1
    THEN comp \cup roi
  ELSE viewbox \cup roi

\* crop_to_local_area up to its call of getCroppedImg, whose coordinates the
\* slices are made of.
crop_to_local_area(shape, verts, marginPct) ==
  getCroppedImg(shape, verts, marginOf(compCoords(verts), marginPct))

\* The coordinates the model draws vertices from: inside the image, on its
\* edges, and MaxFar outside of it on either side.
Coords == {0 - MaxFar, 0, 1, MaxSide, MaxSide + MaxFar}

\* An image of some shape, a viewbox, vertices and parameters, before
\* crop_to_local_area is called with them.
CropInit ==
  /\ crop \in [shape : (1..MaxSide) \X (1..MaxSide),
                v0 : Coords \X Coords, v1 : Coords \X Coords,
                roi : SUBSET {<<0 - MaxFar, 1>>, <<1, MaxSide + MaxFar>>},
                comp : {{}, {<<0, 0>>}},
                reference : {"image", "roi", "component", "viewbox"},
                marginPct : {0, 50, 200},
                done : {FALSE}, bounds : {<<>>}]
  /\ crop.v0[1] <= crop.v1[1] /\ crop.v0[2] <= crop.v1[2]
  /\ geo = <<>> /\ win = <<>> /\ msd = <<>>
  /\ UndoIdle /\ PlugIdle /\ AlgIdle

\* crop_to_local_area(image, ..., viewbox, historyMask, reference, marginPct)
CropRun ==
  /\ ~crop.done
  /\ crop' = [crop EXCEPT
       !.done = TRUE,
       !.bounds = crop_to_local_area(crop.shape,
                    allVerts(crop.shape, crop.roi, crop.comp,
                             {crop.v0, crop.v1, <<crop.v0[1], crop.v1[2]>>,
                              <<crop.v1[1], crop.v0[2]>>},
                             crop.reference),
                    crop.marginPct)]
  /\ UNCHANGED <<geo, win, msd>>
  /\ UNCHANGED <<undoVars, plugVars, saveVars, algVars>>

SpecCrop == CropInit /\ [][CropRun]_vars

\* ------------------------------------------------- the application window
\* The component table holds some of the components 1..MaxComps.
MaxComps == 3

\* A slot that leaves the flag as it is.
_recordCompChange_skips(w) == w

\* FRCdefApp._recordCompChange, the slot of compMgr.sigCompsChanged
_recordCompChange(w) == [w EXCEPT !.hasUnsavedChanges = TRUE]

\* FRCdefApp.__init__: an empty table, nothing exported.  changed says the
\* table was changed since the last export that completed, op is the last
\* call, closed whether closeEvent accepted the event.
WinInit ==
  /\ win = [hasUnsavedChanges |-> FALSE, compDf |-> {}, exported |-> {},
            changed |-> FALSE, op |-> "init", closed |-> FALSE]
  /\ geo = <<>> /\ crop = <<>> /\ msd = <<>>
  /\ UndoIdle /\ PlugIdle /\ AlgIdle

\* compMgr.addComps or compMgr.rmComps leaves the table df and emits
\* sigCompsChanged.
CompsChanged(df) ==
  /\ ~win.closed
  /\ df # win.compDf
  /\ win' = [_recordCompChange(win) EXCEPT !.compDf = df, !.changed = TRUE,
                                           !.op = "change"]
  /\ UNCHANGED <<geo, crop, msd>>
  /\ UNCHANGED <<undoVars, plugVars, saveVars, algVars>>

\* FRCdefApp.exportCompList(outFname); raises says exportCsv raised.
ExportCompList(raises) ==
  /\ ~win.closed
  /\ win' = IF raises
              THEN [win EXCEPT !.op = "export raised"]
              ELSE [win EXCEPT !.hasUnsavedChanges = FALSE,
                               !.exported = win.compDf, !.changed = FALSE,
                               !.op = "export"]
  /\ UNCHANGED <<geo, crop, msd>>
  /\ UNCHANGED <<undoVars, plugVars, saveVars, algVars>>

\* FRCdefApp.closeEvent(ev); ok is the answer to the question it asks where
\* there are unsaved changes.
CloseEvent(ok) ==
  /\ ~win.closed
  /\ win.hasUnsavedChanges \/ ok
  /\ win' = [win EXCEPT !.closed = ~win.hasUnsavedChanges \/ ok,
                        !.op = "close"]
  /\ UNCHANGED <<geo, crop, msd>>
  /\ UNCHANGED <<undoVars, plugVars, saveVars, algVars>>

WinNext ==
  \/ \E df \in SUBSET (1..MaxComps) : CompsChanged(df)
  \/ \E raises \in BOOLEAN : ExportCompList(raises)
  \/ \E ok \in BOOLEAN : CloseEvent(ok)

SpecWin == WinInit /\ [][WinNext]_vars

\* ------------------------------------------------------------ MaxSizeDict
\* The number of assignments made to the dictionary.
MaxSets == 4

\* MaxSizeDict.__setitem__(key, value) at time tick: dict puts a new key last
\* and leaves a key it holds where it is; the first key is popped where the
\* dictionary holds more than maxsize keys then.  evicted is the key popped,
\* oldest the key whose value was set longest ago when it was popped.
__setitem__(d, name, tick) ==
  LET keys == IF \E i \in DOMAIN d.keys : d.keys[i] = name
                THEN d.keys ELSE Append(d.keys, name)
      at == [d.at EXCEPT ![name] = tick]
  IN  IF Len(keys) > d.maxsize
        THEN [d EXCEPT !.keys = Tail(keys), !.at = at, !.evicted = keys[1],
                       !.oldest = CHOOSE k \in {keys[i] : i \in DOMAIN keys} :
                                    \A i \in DOMAIN keys : at[k] <= at[keys[i]]]
        ELSE [d EXCEPT !.keys = keys, !.at = at, !.evicted = "", !.oldest = ""]

\* MaxSizeDict(maxsize=...), empty.
DictInit ==
  /\ msd \in [keys : {<<>>}, at : {[k \in {"a", "b", "c"} |-> 0]},
               maxsize : {1, 2}, evicted : {""}, oldest : {""}]
  /\ geo = <<>> /\ crop = <<>> /\ win = <<>>
  /\ UndoIdle /\ PlugIdle /\ AlgIdle

\* d[key] = value, the value being the time of the assignment.
SetItem(name) ==
  /\ \A k \in DOMAIN msd.at : msd.at[k] < MaxSets
  /\ \E tick \in {1 + CHOOSE t \in 0..MaxSets :
                       /\ \E k \in DOMAIN msd.at : msd.at[k] = t
                       /\ \A k \in DOMAIN msd.at : msd.at[k] <= t} :
       msd' = __setitem__(msd, name, tick)
  /\ UNCHANGED <<geo, crop, win>>
  /\ UNCHANGED <<undoVars, plugVars, saveVars, algVars>>

DictNext == \E name \in {"a", "b", "c"} : SetItem(name)

SpecDict == DictInit /\ [][DictNext]_vars

\* ------------------------------------------------------------------- claims
\* C1: an undoable call followed at once by undo() leaves the application
\* state equal to the state before the call.
C1_UndoRestores == hist.ph = "call.undo" => app = hist.a0

C1_Witness == hist.ph = "call.undo" /\ hist.a0 # hist.a1 /\ app = hist.a0

\* C2: after an undoable call and undo(), redo() succeeds and leaves the
\* application state equal to the state right after the call.
C2_RedoRestores ==
  hist.ph = "call.undo.redo" => res = "ok" /\ app = hist.a1

\* C3: after a new action is appended to the stack, by an undoable call or by
\* closing a group, no undone action is left and canRedo is false.
C3_AppendFlushesRedos ==
  (hist.op \in {"call", "end"} /\ res = "ok" /\ ~grp.open)
    => ~canRedo(actions) /\ \A i \in DOMAIN actions.q : actions.q[i].tau

\* C4: a closed group of actions writing different cells is undone by one
\* undo(), which leaves the state the group was entered in, and redone by one
\* following redo(), which succeeds and leaves the state the group was left in.
C4_GroupAtomic ==
  /\ (hist.ph = "end.undo" /\ hist.ind) => app = hist.a0
  /\ (hist.ph = "end.undo.redo" /\ hist.ind) => res = "ok" /\ app = hist.a1

\* C5: a call that ends in an exception raised by a do or undo block loses no
\* action the stack held before the call.
C5_ExceptionKeepsHistory ==
  [][res' = "Exception" => Held' >= Held]_undoVars

\* C6: undo() with nothing to undo and redo() with nothing to redo raise
\* FRUndoStackError and change nothing.
C6_MisuseRaises ==
  [][/\ (hist'.op = "undo" /\ ~canUndo(actions))
          => res' = "FRUndoStackError" /\ UNCHANGED <<app, actions, key>>
     /\ (hist'.op = "redo" /\ ~canRedo(actions))
          => res' = "FRUndoStackError" /\ UNCHANGED <<app, actions, key>>
    ]_undoVars

C6_Witness ==
  /\ hist.op = "undo" /\ res = "FRUndoStackError" /\ Len(actions.q) > 0

C8_HistoryReset == ~obs.stale

C10_GuiOnMainThread ==
  [][queueActions =>
       /\ (\E i \in DOMAIN threads :
             /\ threads[i].st = "running"
             /\ Len(threads') = Len(threads)
             /\ threads'[i].st = "done")
            => UNCHANGED <<region, firstRun, compSer>>
       /\ (region' # region /\ threads' # threads)
            => \E i \in DOMAIN threads :
                 /\ threads[i].st = "done"
                 /\ threads' = threadFinished(threads, i)
       /\ obs'.by # "worker"
    ]_vars

C10_Witness ==
  /\ queueActions
  /\ obs.by = "main"
  /\ obs.last.ran /\ ~obs.last.raised
  /\ region.rows /\ region.mask = obs.last.ret
  /\ threads = <<>>

\* C11: a click on the status button ends a running thread only after the
\* message box was shown and answered Yes; every other click ends only
\* threads that were not started.
C11_ForceKillConfirmed == obs.ended # "killed"

C11_Witness ==
  /\ obs.ended = "forced"
  /\ threads = <<>>
  /\ arrivals > 0

Definition(d, hp, n) ==
  [kind |-> d[n].kind, stages |-> d[n].stages,
   obj |-> IF d[n].kind = "obj" THEN hp[d[n].id]
           ELSE AtomicProcess("", 0)]

\* C13: addProcess under a name the target namespace holds leaves what is
\* held there as it is without force, and puts the given stage (the saved
\* state of the given pipeline) there with force.
C13_AddKeepsOrReplaces ==
  [][look'.op = "add" =>
       /\ (look'.top /\ topProcs[look'.name].kind # "none") =>
            Definition(topProcs', heap', look'.name)
              = IF look'.force
                  THEN Definition([topProcs EXCEPT ![look'.name] =
                                     ListEntry(<<look'.stage>>)],
                                  heap, look'.name)
                  ELSE Definition(topProcs, heap, look'.name)
       /\ (~look'.top /\ primitiveProcs[look'.name].kind # "none") =>
            Definition(primitiveProcs', heap', look'.name)
              = IF ~look'.force
                  THEN Definition(primitiveProcs, heap, look'.name)
                  ELSE IF look'.stage # ""
                    THEN Definition([primitiveProcs EXCEPT ![look'.name] =
                                       ListEntry(<<look'.stage>>)],
                                    heap, look'.name)
                    ELSE [kind |-> "obj", stages |-> <<>>,
                          obj |-> AtomicProcess(look'.name, look'.func)]
    ]_algVars

C13_Witness ==
  /\ look.op = "add" /\ ~look.force /\ ~look.top
  /\ look.name = "h" /\ look.func = 2
  /\ primitiveProcs["h"].kind = "obj"
  /\ heap[primitiveProcs["h"].id].func = 1

\* A name no registry holds, pydoc.locate does not find and no configured
\* module defines.
Unresolved(procName) ==
  /\ get(primitiveProcs, procName).kind = "none"
  /\ get(topProcs, procName).kind = "none"
  /\ locate(procName) = "None"
  /\ \A i \in DOMAIN includeModules :
       procName \notin ModuleProcs(includeModules[i])

\* C14: parseProcName of such a name raises the ValueError whose message
\* quotes that name.
C14_UnknownNameNamed ==
  [][(look'.op = "parse" /\ Unresolved(look'.name))
       => look'.out = "Process" /\ look'.msg = look'.name]_algVars

\* C14, amended: the same where every configured module can be imported;
\* otherwise parseProcModule's ValueError quotes the module that cannot.
C14_UnknownNameNamedImportable ==
  [][(look'.op = "parse" /\ Unresolved(look'.name))
       => IF \A i \in DOMAIN includeModules : includeModules[i] \in Locatable
            THEN look'.out = "Process" /\ look'.msg = look'.name
            ELSE /\ look'.out = "Module"
                 /\ look'.msg \notin Locatable
                 /\ \E i \in DOMAIN includeModules :
                      includeModules[i] = look'.msg]_algVars

C14_Witness ==
  /\ look.op = "parse" /\ look.name = "zz"
  /\ look.out = "Process" /\ look.msg = "zz"
  /\ includeModules = <<"ext">>

\* C15: a lookup that returns a stage found it in the namespace searched
\* first (the top processes with topFirst, the primitives without) if that
\* holds the name, else in the other namespace if that holds it, and only
\* else under the qualified name or, last, in the modules; a pipeline it
\* returns holds the stage named by the list of that namespace.
C15_SearchOrder ==
  [][(look'.op = "parse" /\ look'.out = "ok") =>
       /\ look'.via =
            IF get(IF look'.top THEN topProcs ELSE primitiveProcs,
                   look'.name).kind # "none"
              THEN IF look'.top THEN "top" ELSE "primitive"
            ELSE IF get(IF look'.top THEN primitiveProcs ELSE topProcs,
                        look'.name).kind # "none"
              THEN IF look'.top THEN "primitive" ELSE "top"
            ELSE IF locate(look'.name) # "None" THEN "qualname"
            ELSE "modules"
       /\ (look'.via = "top" /\ topProcs[look'.name].stages # <<>>) =>
            heap'[heap'[look'.id].stage].name = topProcs[look'.name].stages[1]
       /\ (look'.via = "primitive"
             /\ primitiveProcs[look'.name].stages # <<>>) =>
            heap'[heap'[look'.id].stage].name
              = primitiveProcs[look'.name].stages[1]
    ]_algVars

C15_Witness ==
  /\ look.op = "parse" /\ look.name = "P" /\ look.top /\ look.out = "ok"
  /\ look.via = "top"
  /\ topProcs["P"].stages = <<"h">>
  /\ primitiveProcs["P"].stages = <<"q">>
  /\ heap[heap[look.id].stage].name = "h"

\* C16: changing the stage a lookup returned, its own state or a value its
\* input holds, changes nothing a registry holds and no value a stage in a
\* registry refers to.
C16_LookupSharesNothing ==
  [][look'.op = "mutate" =>
       \A n \in RegNames :
         /\ Definition(primitiveProcs', heap', n)
              = Definition(primitiveProcs, heap, n)
         /\ Definition(topProcs', heap', n) = Definition(topProcs, heap, n)
         /\ primitiveProcs[n].kind = "obj" =>
              ioVals'[heap[primitiveProcs[n].id].func]
                = ioVals[heap[primitiveProcs[n].id].func]
    ]_algVars

\* stack.hasChanged as the stack is.
HasChanged == hasChanged(actions, undos, savepoint.at)

\* C17: setSavepoint() returns and hasChanged is False right after it; an
\* action done, undone or redone while hasChanged is False after a savepoint
\* makes it True.
C17_SavepointTracksChange ==
  [][/\ hist'.op = "save" => res' = "ok" /\ HasChanged' = "False"
     /\ (/\ savepoint.set
         /\ HasChanged = "False"
         /\ hist'.op \in {"call", "undo", "redo"}
         /\ res' = "ok") => HasChanged' = "True"]_vars

C19_ExceptionClears ==
  res = "Exception" => ~canUndo(actions) /\ ~canRedo(actions)

\* C20: hasChanged is True as long as setSavepoint has not been called.
C20_ChangedWithoutSavepoint ==
  ~savepoint.set => HasChanged = "True"

\* C28: an undo() or redo() that returns leaves the number of actions the
\* stack holds as it was, whatever the processed action's blocks call.
C28_UndoRedoKeepCount ==
  [][(hist'.op \in {"undo", "redo"} /\ res' = "ok")
       => Len(actions'.q) = Len(actions.q)]_undoVars

\* C30: an undoable call made on a full bounded deque whose right end is a
\* done action leaves that action right before the new one, where undo()
\* finds it once the new one is undone.
C30_FullStackDropsOldest ==
  [][(/\ hist'.op = "call" /\ res' = "ok"
      /\ actions.m > 0 /\ Len(actions.q) = actions.m
      /\ canUndo(actions))
       => /\ Len(actions'.q) >= 2
          /\ actions'.q[Len(actions'.q) - 1] = Last(actions.q)]_undoVars

\* C29: where as many actions were redone as were undone since the last
\* undoable call, the application state is the one these calls started
\* from; and redo() finds an action to redo while one is undone.
C29_UndosThenRedosReturn ==
  lin.on => lin.ok /\ (lin.d = 0 => app = lin.base)

\* C26: undoing a region edit that a pipeline run produced leaves procCache
\* as the run found it when it started, also where other runs were queued
\* while it ran.
C26_UndoRestoresCache ==
  [][Len(edits'.q) < Len(edits.q)
       => procCache' = edits.q[Len(edits.q)].before]_plugVars

\* C27: an edit is made to the region of the component that was focused when
\* the run it came from was started.
C27_ResultGoesToItsComponent ==
  \A i \in DOMAIN edits.q : edits.q[i].comp = edits.q[i].started

\* C22: a run on vertices too few for a stage that needs an enclosed area
\* raises to its caller and returns no mask.
C22_GeometryErrorRaised ==
  (geo.ran /\ disallow_paint_tool(geo.fg, geo.bg)) => geo.raised

\* C23: whatever the vertices, the viewbox and the margin, the bounds
\* crop_to_local_area cuts the image at lie between <<0, 0>> and the image's
\* shape: x between 0 and the number of columns, y between 0 and the number
\* of rows.
C23_CropBoundsInImage ==
  crop.done =>
    \A i \in 1..2 : /\ crop.bounds[i][1] \in 0..crop.shape[2]
                     /\ crop.bounds[i][2] \in 0..crop.shape[1]

C23_Witness ==
  /\ crop.done
  /\ crop.shape[1] # crop.shape[2]
  /\ crop.reference = "viewbox"
  /\ crop.v0[1] < 0 /\ crop.v0[2] < 0
  /\ crop.v1[1] > crop.shape[2] /\ crop.v1[2] > crop.shape[1]
  /\ crop.marginPct > 0
  /\ crop.bounds = <<<<0, 0>>, <<crop.shape[2], crop.shape[1]>>>>

C25_EvictsOldestSetValue == msd.evicted # "" => msd.evicted = msd.oldest

====
